---------------------------- MODULE Spec2Model ----------------------------
(***************************************************************************)
(* Model of the FAST serial communicators of mpf:                          *)
(*   mpf/platforms/fast/communicators/base.py  FastSerialCommunicator      *)
(*   mpf/platforms/fast/communicators/exp.py   FastExpCommunicator         *)
(*                                                                         *)
(* A byte string / text string is a sequence of one-character strings.     *)
(* None and '' are both the empty sequence: the code only ever tests a     *)
(* confirmation pattern for truthiness (base.py:262, base.py:322).         *)
(***************************************************************************)
EXTENDS Integers, Sequences, FiniteSets, TLC

(***************************************************************************)
(* Bounds of the model.                                                    *)
(***************************************************************************)
MaxSends == 2       \* enqueue calls made by the application (not discovery)
MaxReads == 2       \* reads returned by the transport
MaxWait == 2        \* seconds of waiting on the ready gate that are tracked
MaxParseCalls == 3  \* direct _parse_msg calls in the frame-parser harness

(***************************************************************************)
(* Characters and literals of the wire protocol.                           *)
(***************************************************************************)
CR == "\r"
HIGH == "0xff"      \* a byte that is not valid UTF-8
None == <<>>

UpperChars == <<"A", "B", "C", "D", "E", "F", "G", "H", "I", "J", "K", "L", "M", "N", "O", "P", "Q", "R", "S", "T", "U", "V", "W", "X", "Y", "Z">>
LowerChars == <<"a", "b", "c", "d", "e", "f", "g", "h", "i", "j", "k", "l", "m", "n", "o", "p", "q", "r", "s", "t", "u", "v", "w", "x", "y", "z">>
Digits == <<"0", "1", "2", "3", "4", "5", "6", "7", "8", "9">>

HDR_ID == <<"I", "D", ":">>
HDR_XX == <<"X", "X", ":">>
HDR_BR == <<"B", "R", ":">>
MSG_WD_P == <<"W", "D", ":", "P">>
MSG_XX_F == <<"X", "X", ":", "F">>
TagEXP == <<"E", "X", "P">>
QID_AT == <<"I", "D", "@">>

BaseClass == "FastSerialCommunicator"
ExpClass == "FastExpCommunicator"

(***************************************************************************)
(* Python string primitives, computed as Python computes them.             *)
(***************************************************************************)
RECURSIVE FindFrom(_, _, _)
FindFrom(s, b, i) ==
    IF i > Len(s) THEN -1
    ELSE IF s[i] = b THEN i - 1
    ELSE FindFrom(s, b, i + 1)

\* bytes.find(b): 0-based index of the first occurrence, -1 when absent
Find(s, b) == FindFrom(s, b, 1)

\* s[:n]
Take(s, n) == SubSeq(s, 1, IF n < Len(s) THEN n ELSE Len(s))

\* s[n:]
Drop(s, n) == SubSeq(s, n + 1, Len(s))

\* str.startswith
StartsWith(s, p) == Len(p) <= Len(s) /\ SubSeq(s, 1, Len(p)) = p

IndexIn(tbl, c) == IF \E i \in 1..Len(tbl) : tbl[i] = c
                   THEN CHOOSE i \in 1..Len(tbl) : tbl[i] = c
                   ELSE 0

LowerChar(c) == IF IndexIn(UpperChars, c) > 0 THEN LowerChars[IndexIn(UpperChars, c)] ELSE c
UpperChar(c) == IF IndexIn(LowerChars, c) > 0 THEN UpperChars[IndexIn(LowerChars, c)] ELSE c

\* str.lower / str.upper
Lower(s) == [i \in 1..Len(s) |-> LowerChar(s[i])]
Upper(s) == [i \in 1..Len(s) |-> UpperChar(s[i])]

RECURSIVE SplitMax(_, _, _)
\* str.split(sep, maxsplit); maxsplit = -1 splits everywhere
SplitMax(s, sep, n) ==
    LET pos == Find(s, sep) IN
    IF pos = -1 \/ n = 0 THEN <<s>>
    ELSE <<Take(s, pos)>> \o SplitMax(Drop(s, pos + 1), sep, n - 1)

Split(s, sep) == SplitMax(s, sep, -1)

RECURSIVE SplitWS(_)
\* str.split() without arguments: runs of blanks separate, no empty fields
SplitWS(s) ==
    LET pos == Find(s, " ") IN
    IF s = <<>> THEN <<>>
    ELSE IF pos = -1 THEN <<s>>
    ELSE IF pos = 0 THEN SplitWS(Drop(s, 1))
    ELSE <<Take(s, pos)>> \o SplitWS(Drop(s, pos + 1))

RECURSIVE Join(_, _)
\* sep.join(parts)
Join(parts, sep) ==
    IF parts = <<>> THEN <<>>
    ELSE IF Len(parts) = 1 THEN parts[1]
    ELSE parts[1] \o sep \o Join(Tail(parts), sep)

RECURSIVE LStrip(_, _)
LStrip(s, chars) ==
    IF s # <<>> /\ s[1] \in chars THEN LStrip(Tail(s), chars) ELSE s

RECURSIVE RStrip(_, _)
RStrip(s, chars) ==
    IF s # <<>> /\ s[Len(s)] \in chars THEN RStrip(SubSeq(s, 1, Len(s) - 1), chars) ELSE s

\* str.strip(chars): removes leading and trailing characters of the SET chars
Strip(s, chars) == RStrip(LStrip(s, chars), chars)

RECURSIVE ZFill(_, _)
\* str.zfill(width) for strings without a sign
ZFill(s, w) == IF Len(s) >= w THEN s ELSE ZFill(<<"0">> \o s, w)

IsDigits(s) == s # <<>> /\ \A i \in 1..Len(s) : IndexIn(Digits, s[i]) > 0

RECURSIVE DigitsValue(_)
DigitsValue(s) ==
    IF s = <<>> THEN 0
    ELSE 10 * DigitsValue(SubSeq(s, 1, Len(s) - 1)) + (IndexIn(Digits, s[Len(s)]) - 1)

\* int(s) for unsigned decimal text; anything else raises ValueError
ParseInt(s) == IF IsDigits(s) THEN [ok |-> TRUE, value |-> DigitsValue(s)]
               ELSE [ok |-> FALSE, value |-> 0]

RECURSIVE IntToStr(_)
\* str(n) for n >= 0
IntToStr(n) == IF n < 10 THEN <<Digits[n + 1]>>
               ELSE IntToStr(n \div 10) \o <<Digits[(n % 10) + 1]>>

\* bytes.decode(): UTF-8; ASCII bytes map to the same character, 0xff never decodes
Decodable(bs) == \A i \in 1..Len(bs) : bs[i] # HIGH

(***************************************************************************)
(* packaging.version: numeric release segments only (N.N...); any other    *)
(* text is an invalid version. Equal releases ignore trailing zeros.       *)
(***************************************************************************)
VersionParse(s) ==
    LET parts == Split(s, ".") IN
    IF \A i \in 1..Len(parts) : IsDigits(parts[i])
    THEN [ok |-> TRUE, release |-> [i \in 1..Len(parts) |-> DigitsValue(parts[i])]]
    ELSE [ok |-> FALSE, release |-> <<>>]

RelAt(r, i) == IF i <= Len(r) THEN r[i] ELSE 0

\* mutant: <= instead of <
VersionLess_OrEqual(a, b) ==
    LET n == IF Len(a) > Len(b) THEN Len(a) ELSE Len(b) IN
    ~\E i \in 1..n : /\ RelAt(b, i) < RelAt(a, i)
                     /\ \A j \in 1..(i - 1) : RelAt(a, j) = RelAt(b, j)

\* Version.__lt__
VersionLess(a, b) ==
    LET n == IF Len(a) > Len(b) THEN Len(a) ELSE Len(b) IN
    \E i \in 1..n : /\ RelAt(a, i) < RelAt(b, i)
                    /\ \A j \in 1..(i - 1) : RelAt(a, j) = RelAt(b, j)

MIN_FW_BASE == VersionParse(<<"0", ".", "0", "0">>).release   \* version.parse('0.00')
MIN_FW_EXP == VersionParse(<<"0", ".", "7">>).release         \* version.parse('0.7')

(***************************************************************************)
(* State.                                                                  *)
(***************************************************************************)
VARIABLES
    cls,                    \* class of the communicator object
    config_boards,          \* config['boards'], in declaration order
    received_msg,           \* self.received_msg
    send_ready,             \* self.send_ready (asyncio.Event)
    query_done,             \* self.query_done (asyncio.Event)
    send_queue,             \* self.send_queue
    confirm_msg,            \* self.confirm_msg
    ignore_decode_errors,   \* self.ignore_decode_errors
    remote_processor,       \* self.remote_processor
    remote_model,           \* self.remote_model
    remote_firmware,        \* self.remote_firmware
    machine_vars,           \* machine.variables: set of <<name, value>>
    write_task,             \* position of _socket_writer
    witem,                  \* item the writer loop holds
    waited,                 \* seconds the writer has been suspended on the ready gate
    read_task,              \* position of _socket_reader
    port,                   \* payloads handed to writer.write, in order
    exp_boards_by_address,  \* self.exp_boards_by_address
    active_board,           \* self.active_board
    platform_boards,        \* boards registered with the platform
    cst,                    \* position of each coroutine that calls send_query
    cq,                     \* (msg, response_msg) of each caller's current send_query
    qidx,                   \* index of the board query_exp_boards is working on
    enqueued,               \* history: payloads put on send_queue, in order
    events,                 \* history: what the last _parse_msg call did per message
    pending_conf,           \* history: patterns of confirm-requiring writes not yet observed
    cwritten,               \* history: the caller's own query has been written
    canswered,              \* history: a message with the caller's pattern came after that
    verified,               \* history: verify_hardware calls <<board, product, firmware>>
    board_reset,            \* history: boards whose reset() was called
    bqueried,               \* history: boards whose identity query was enqueued
    nsends,                 \* number of application enqueue calls so far
    nreads,                 \* number of reads so far
    stream,                 \* harness: all bytes passed to _parse_msg
    framed,                 \* harness: non-empty segments _parse_msg extracted
    number_str,             \* harness: argument of get_address_from_number_string
    addr_parts,             \* harness: the fields number_str was built from
    addr_result,            \* harness: outcome of get_address_from_number_string
    production,             \* machine.options["production"]
    connect_task,           \* position of connect()
    open_failures,          \* history: SerialExceptions raised by the open so far
    retry_warnings,         \* history: "Connection ... failed. Will retry." warnings logged
    machine_stopped,        \* history: machine.stop() has been called
    last_call               \* history: the last call of a board-level command

commVars == <<cls, config_boards, received_msg, send_ready, query_done, send_queue,
              confirm_msg, ignore_decode_errors, remote_processor, remote_model,
              remote_firmware, machine_vars, write_task, witem, waited, read_task, port,
              exp_boards_by_address, active_board, platform_boards, cst, cq, qidx>>
histVars == <<enqueued, events, pending_conf, cwritten, canswered, verified,
              board_reset, bqueried, nsends, nreads>>
parseHarnessVars == <<stream, framed>>
addrHarnessVars == <<number_str, addr_parts, addr_result>>
connVars == <<production, connect_task, open_failures, retry_warnings>>
extVars == <<machine_stopped, last_call>>
vars == <<commVars, histVars, parseHarnessVars, addrHarnessVars, connVars, extVars>>

Callers == {"init", "app"}

(***************************************************************************)
(* Message handlers. A handler takes the part of the object state that     *)
(* _parse_msg and the handlers touch (a record st) and returns it with     *)
(* st.exc naming the exception that left the handler, "none" otherwise.    *)
(***************************************************************************)
SetMachineVar(mv, name, value) == {p \in mv : p[1] # name} \cup {<<name, value>>}

MachineVarName(processor, suffix) ==
    <<"f", "a", "s", "t", "_">> \o Lower(processor) \o suffix

\* FastSerialCommunicator._process_xx: logs a warning
ProcessXX(st, body) == st

\* base.py:130-143: the identity fields and the two machine variables
RecordIdentity(st, fields) ==
    [st EXCEPT
       !.remote_processor = fields[1],
       !.remote_model = fields[2],
       !.remote_firmware = fields[3],
       !.machine_vars =
           SetMachineVar(
             SetMachineVar(st.machine_vars,
                           MachineVarName(fields[1], <<"_", "f", "i", "r", "m", "w", "a", "r", "e">>),
                           fields[3]),
             MachineVarName(fields[1], <<"_", "m", "o", "d", "e", "l">>), fields[2])]

\* if version.parse(firmware) < MIN_FW: raise AssertionError
FirmwareGate(st, v, min_fw) ==
    IF ~v.ok THEN [st EXCEPT !.exc = "InvalidVersion"]
    ELSE IF VersionLess(v.release, min_fw) THEN [st EXCEPT !.exc = "AssertionError:firmware"]
    ELSE st

\* FastSerialCommunicator._process_id on the split message
ProcessIdBaseFields(st, fields) ==
    IF Len(fields) # 3 THEN [st EXCEPT !.exc = "ValueError"]
    ELSE FirmwareGate(RecordIdentity(st, fields), VersionParse(fields[3]), MIN_FW_BASE)

\* FastSerialCommunicator._process_id
ProcessIdBase(st, body) == ProcessIdBaseFields(st, SplitWS(body))

\* FastExpansionBoard.verify_hardware(product_id, firmware_version): the call is recorded
VerifyHardware(st, board, product_id, firmware_version) ==
    [st EXCEPT !.verified = @ \cup {<<board, product_id, firmware_version>>}]

\* exp.py:111: self.exp_boards_by_address[self.active_board].verify_hardware(...)
ForwardIdentity(st, fields) ==
    IF st.exc # "none" THEN st
    ELSE IF st.active_board \notin DOMAIN st.exp_boards_by_address THEN [st EXCEPT !.exc = "KeyError"]
    ELSE VerifyHardware(st, st.exp_boards_by_address[st.active_board], fields[2], fields[3])

\* FastExpCommunicator._process_id on the split message
ProcessIdExpFields(st, fields) ==
    IF Len(fields) # 3 THEN [st EXCEPT !.exc = "ValueError"]
    ELSE IF fields[1] # TagEXP THEN [st EXCEPT !.exc = "AssertionError:bus"]
    ELSE ForwardIdentity(FirmwareGate(st, VersionParse(fields[3]), MIN_FW_EXP), fields)

\* FastExpCommunicator._process_id
ProcessIdExp(st, body) == ProcessIdExpFields(st, SplitWS(body))

\* FastExpCommunicator._process_br: pass
ProcessBR(st, body) == st

\* self.message_processors of the class
MessageProcessors(c) ==
    IF c = ExpClass THEN {HDR_XX, HDR_ID, HDR_BR} ELSE {HDR_XX, HDR_ID}

\* self.message_processors[msg_header](msg[3:])
CallProcessor(c, st, hdr, body) ==
    IF hdr = HDR_XX THEN ProcessXX(st, body)
    ELSE IF hdr = HDR_BR THEN ProcessBR(st, body)
    ELSE IF c = ExpClass THEN ProcessIdExp(st, body)
    ELSE ProcessIdBase(st, body)

\* ignored_messages of the class
IgnoredMessages(c) == IF c = ExpClass THEN {MSG_XX_F} ELSE {MSG_WD_P}

(***************************************************************************)
(* FastSerialCommunicator._parse_msg: the scan loop and the routing of     *)
(* each extracted message.                                                 *)
(***************************************************************************)
NewEvent(msg) ==
    [msg |-> msg, pattern |-> None, decoded |-> FALSE, ignored |-> FALSE, handler |-> None,
     confirmed |-> FALSE, opened |-> FALSE, unknown |-> FALSE, exc |-> "none"]

AddEvent(st, ev) == [st EXCEPT !.events = Append(@, ev)]

\* mutant: the gate is opened but suspended callers are not released
QueryDoneSet_NoRelease(st) == [st EXCEPT !.query_done = TRUE]

\* asyncio.Event.set() on query_done: every coroutine suspended in wait() is released
QueryDoneSet(st) ==
    [st EXCEPT !.query_done = TRUE,
               !.cst = [c \in DOMAIN @ |-> IF @[c] = "blocked" THEN "woken" ELSE @[c]]]

\* history: a decoded message that starts with the pattern of a caller whose query is written
NoteAnswer(st, msg) ==
    [st EXCEPT !.canswered =
        [c \in DOMAIN @ |-> @[c] \/ (st.cst[c] = "blocked" /\ st.cwritten[c]
                                      /\ StartsWith(msg, st.cq[c].response_msg))]]

\* history: the router's confirmation check has seen msg
NoteObserved(st, msg) ==
    [st EXCEPT !.pending_conf = SelectSeq(@, LAMBDA p : ~StartsWith(msg, p))]

\* mutant: the gate is reopened but the pattern stays
Confirmed_KeepPattern(st, ev) ==
    AddEvent([st EXCEPT !.send_ready = TRUE], [ev EXCEPT !.confirmed = TRUE])

\* base.py:263-269: the confirmation matched
Confirmed(st, ev) ==
    IF ~st.query_done
    THEN AddEvent(QueryDoneSet([st EXCEPT !.confirm_msg = None, !.send_ready = TRUE]),
                  [ev EXCEPT !.confirmed = TRUE, !.opened = TRUE])
    ELSE AddEvent([st EXCEPT !.confirm_msg = None, !.send_ready = TRUE],
                  [ev EXCEPT !.confirmed = TRUE])

\* base.py:261-273: the confirmation check and the unknown-message warning
ConfirmCheck(st, ev, msg, handled) ==
    IF st.confirm_msg # None /\ StartsWith(msg, st.confirm_msg)
    THEN Confirmed(NoteObserved(st, msg), ev)
    ELSE AddEvent(NoteObserved(st, msg), [ev EXCEPT !.unknown = ~handled])

\* after the handler: its exception leaves _parse_msg
AfterProcessor(st, ev, msg) ==
    IF st.exc # "none" THEN AddEvent(st, [ev EXCEPT !.exc = st.exc])
    ELSE ConfirmCheck(st, ev, msg, TRUE)

\* base.py:253-259: dispatch on the 3-character header
RouteHeader(c, st, ev, msg, msg_header) ==
    IF msg_header \in MessageProcessors(c)
    THEN AfterProcessor(CallProcessor(c, st, msg_header, Drop(msg, 3)),
                        [ev EXCEPT !.handler = msg_header], msg)
    ELSE ConfirmCheck(st, ev, msg, FALSE)

\* mutant: the ignore-list is not consulted
RouteDecoded_NoIgnore(c, st, ev, msg) == RouteHeader(c, st, ev, msg, Take(msg, 3))

\* base.py:250-251 onwards for a decoded message
RouteDecoded(c, st, ev, msg) ==
    IF msg \in IgnoredMessages(c) THEN AddEvent(st, [ev EXCEPT !.ignored = TRUE])
    ELSE RouteHeader(c, st, ev, msg, Take(msg, 3))

\* base.py:245-248: msg.decode() raised UnicodeDecodeError; msg is still bytes
RouteUndecoded(st, ev) ==
    IF ~st.ignore_decode_errors
    THEN AddEvent([st EXCEPT !.exc = "UnicodeDecodeError"], [ev EXCEPT !.exc = "UnicodeDecodeError"])
    ELSE IF st.confirm_msg # None
    THEN \* bytes.startswith(str)
         AddEvent([st EXCEPT !.exc = "TypeError"], [ev EXCEPT !.exc = "TypeError"])
    ELSE AddEvent(st, [ev EXCEPT !.unknown = TRUE])

\* base.py:243-273 for one non-empty message
RouteMsg(c, st, msg) ==
    IF ~Decodable(msg) THEN RouteUndecoded(st, [NewEvent(msg) EXCEPT !.pattern = st.confirm_msg])
    ELSE RouteDecoded(c, NoteAnswer(st, msg),
                      [NewEvent(msg) EXCEPT !.decoded = TRUE, !.pattern = st.confirm_msg], msg)

RECURSIVE ParseLoop(_, _)
RECURSIVE ParseSegment(_, _, _)
RECURSIVE ParseContinue(_, _)

\* base.py:230-235: find the delimiter, stop when there is none
ParseLoop(c, st) ==
    IF Find(st.received_msg, CR) = -1 THEN st
    ELSE ParseSegment(c, [st EXCEPT !.received_msg = Drop(@, Find(@, CR) + 1)],
                      Take(st.received_msg, Find(st.received_msg, CR)))

\* mutant: an empty segment is routed like any other
ParseSegment_NoSkip(c, st, msg) ==
    ParseContinue(c, RouteMsg(c, [st EXCEPT !.framed = Append(@, msg)], msg))

\* base.py:237-241: the segment is cut off the buffer; an empty one is skipped
ParseSegment(c, st, msg) ==
    IF msg = <<>> THEN ParseLoop(c, st)
    ELSE ParseContinue(c, RouteMsg(c, [st EXCEPT !.framed = Append(@, msg)], msg))

\* an exception leaves the loop, otherwise the scan goes on
ParseContinue(c, st) == IF st.exc # "none" THEN st ELSE ParseLoop(c, st)

\* the object state _parse_msg works on
ParseState ==
    [received_msg |-> received_msg, confirm_msg |-> confirm_msg, send_ready |-> send_ready,
     query_done |-> query_done, ignore_decode_errors |-> ignore_decode_errors,
     remote_processor |-> remote_processor, remote_model |-> remote_model,
     remote_firmware |-> remote_firmware, machine_vars |-> machine_vars,
     exp_boards_by_address |-> exp_boards_by_address, active_board |-> active_board,
     cst |-> cst, cq |-> cq, cwritten |-> cwritten, canswered |-> canswered,
     pending_conf |-> pending_conf, verified |-> verified,
     events |-> <<>>, framed |-> <<>>, exc |-> "none"]

\* mutant: the chunk replaces the receive buffer instead of extending it
ParseMsg_DropBuffer(c, st, chunk) == ParseLoop(c, [st EXCEPT !.received_msg = chunk])

\* _parse_msg(msg): append the chunk, then scan
ParseMsg(c, st, chunk) == ParseLoop(c, [st EXCEPT !.received_msg = @ \o chunk])

\* the assignments _parse_msg made to the object, from its final record
ParseEffects(r) ==
    /\ received_msg' = r.received_msg
    /\ confirm_msg' = r.confirm_msg
    /\ send_ready' = r.send_ready
    /\ query_done' = r.query_done
    /\ remote_processor' = r.remote_processor
    /\ remote_model' = r.remote_model
    /\ remote_firmware' = r.remote_firmware
    /\ machine_vars' = r.machine_vars
    /\ cst' = r.cst
    /\ canswered' = r.canswered
    /\ pending_conf' = r.pending_conf
    /\ verified' = r.verified
    /\ events' = r.events

(***************************************************************************)
(* Static board-address table and the inputs of the model.                 *)
(***************************************************************************)
\* fast_defines.EXPANSION_BOARD_ADDRESS_MAP: (board, instance) -> bus address
EXPANSION_BOARD_ADDRESS_MAP ==
    {[board |-> <<"0", "0", "7", "1">>, id |-> 0, address |-> <<"B", "4">>],
     [board |-> <<"0", "0", "7", "1">>, id |-> 1, address |-> <<"B", "5">>],
     [board |-> <<"0", "2", "0", "1">>, id |-> 0, address |-> <<"8", "8">>],
     [board |-> <<"0", "2", "0", "1">>, id |-> 2, address |-> <<"8", "A">>]}

\* the key (model, id) that query_exp_boards looks up
ModelKey(e) == <<<<"F", "P", "-", "E", "X", "P", "-">> \o e.board, e.id>>

\* the key f'{board}-{id}' that get_address_from_number_string looks up
NumberKey(e) == e.board \o <<"-">> \o IntToStr(e.id)

AddressOf(key, view) == (CHOOSE p \in view : p[1] = key)[2]

\* the table as the dict query_exp_boards indexes
AddressByModel ==
    LET view == {<<ModelKey(e), e.address>> : e \in EXPANSION_BOARD_ADDRESS_MAP} IN
    [k \in {p[1] : p \in view} |-> AddressOf(k, view)]

\* the table as the dict get_address_from_number_string indexes
AddressByNumber ==
    LET view == {<<NumberKey(e), e.address>> : e \in EXPANSION_BOARD_ADDRESS_MAP} IN
    [k \in {p[1] : p \in view} |-> AddressOf(k, view)]

\* config['boards'] of the expansion communicator: two boards on different
\* addresses, or two boards that resolve to the same address
ExpConfigs ==
    {<<[name |-> "brd1", model |-> <<"F", "P", "-", "E", "X", "P", "-", "0", "0", "7", "1">>, id |-> 0],
       [name |-> "brd2", model |-> <<"F", "P", "-", "e", "X", "p", "-", "0", "2", "0", "1", "-", "2">>, id |-> 0]>>,
     <<[name |-> "brd1", model |-> <<"F", "P", "-", "E", "X", "P", "-", "0", "0", "7", "1">>, id |-> 0],
       [name |-> "brd2", model |-> <<"f", "p", "-", "e", "x", "p", "-", "0", "0", "7", "1", "-", "2">>, id |-> 0]>>}

\* commands the application sends and the confirmations it asks for
CmdSA == <<"S", "A", ":">>
CmdSQ == <<"S", "Q", ":">>
AppCommands == {CmdSA}
AppConfirms == {CmdSA}
AppQueries == {[msg |-> CmdSQ, response_msg |-> CmdSQ]}

\* what the transport can return from one read
RespNet == <<"I", "D", ":", "N", "E", "T", " ", "F", "P", "-", "C", "P", "U", "-", "2", "0", "0", "0", " ", "2", ".", "1", "1">>
RespExp05 == <<"I", "D", ":", "E", "X", "P", " ", "F", "P", "-", "E", "X", "P", "-", "0", "0", "7", "1", " ", "0", ".", "5">>
RespExp07 == <<"I", "D", ":", "E", "X", "P", " ", "F", "P", "-", "E", "X", "P", "-", "0", "0", "7", "1", " ", "0", ".", "7">>
RespExp10 == <<"I", "D", ":", "E", "X", "P", " ", "F", "P", "-", "E", "X", "P", "-", "0", "0", "7", "1", " ", "1", ".", "0">>
RespSA == <<"S", "A", ":", "P">>
RespSQ == <<"S", "Q", ":", "P">>

WireChunks(c) ==
    IF c = ExpClass
    THEN {RespExp05 \o <<CR>>, RespExp07 \o <<CR>>, RespExp10 \o <<CR>>,
          RespSA \o <<CR>>, RespSA \o <<CR>> \o RespExp10 \o <<CR>>}
    ELSE {RespNet \o <<CR>>, RespSA \o <<CR>>, RespSQ \o <<CR>>,
          <<"I", "D", ":", "x", CR>>, RespSA \o <<CR>> \o RespNet \o <<CR>>,
          MSG_WD_P \o <<CR>>, <<HIGH, CR>>}

EmptyMap == [a \in {} |-> None]

NoItem == [msg |-> <<>>, confirm_msg |-> None, by |-> "none", call |-> 0]
NoQuery == [msg |-> <<>>, response_msg |-> None, call |-> 0]
NoCall == [op |-> "none", board_address |-> None, rate |-> 0, n |-> 0]

(***************************************************************************)
(* The state after construction (__init__ of the class).                   *)
(***************************************************************************)
InitComm(class) ==
    /\ cls = class
    /\ config_boards \in (IF cls = ExpClass THEN ExpConfigs ELSE {<<>>})
    /\ received_msg = <<>>
    /\ send_ready = TRUE
    /\ query_done = TRUE
    /\ send_queue = <<>>
    /\ confirm_msg = None
    /\ ignore_decode_errors = TRUE
    /\ remote_processor = (IF cls = ExpClass THEN Upper(<<"e", "x", "p">>) ELSE Upper(<<"n", "e", "t">>))
    /\ remote_model = None
    /\ remote_firmware = None
    /\ machine_vars = {}
    /\ write_task = "none"
    /\ witem = NoItem
    /\ waited = 0
    /\ read_task = "none"
    /\ port = <<>>
    /\ exp_boards_by_address = EmptyMap
    /\ active_board = None
    /\ platform_boards = {}
    /\ cst = [c \in Callers |-> IF c = "init" THEN "new" ELSE "idle"]
    /\ cq = [c \in Callers |-> NoQuery]
    /\ qidx = 0
    /\ enqueued = <<>>
    /\ events = <<>>
    /\ pending_conf = <<>>
    /\ cwritten = [c \in Callers |-> FALSE]
    /\ canswered = [c \in Callers |-> FALSE]
    /\ verified = {}
    /\ board_reset = {}
    /\ bqueried = <<>>
    /\ nsends = 0
    /\ nreads = 0
    /\ production \in BOOLEAN
    /\ connect_task = "none"
    /\ open_failures = 0
    /\ retry_warnings = 0
    /\ machine_stopped = FALSE
    /\ last_call = NoCall

InitHarness ==
    /\ stream = <<>>
    /\ framed = <<>>
    /\ number_str = <<>>
    /\ addr_parts = <<>>
    /\ addr_result = [kind |-> "none"]

(***************************************************************************)
(* connect() (base.py:59-112) and clear_board_serial_buffer (114-118), one *)
(* action per suspension point: the await of the connector, the sleep      *)
(* before a retry, the sleep of the drain.                                 *)
(***************************************************************************)
MaxOpenFailures == 1    \* SerialExceptions the transport raises before it opens

\* write_to_port(msg)
WriteToPort(p, msg) == Append(p, msg)

\* connect() is called and suspends in `await connector`
ConnectCall ==
    /\ connect_task = "none"
    /\ connect_task' = "opening"
    /\ UNCHANGED <<commVars, histVars, parseHarnessVars, addrHarnessVars, extVars,
                   production, open_failures, retry_warnings>>

\* mutant: the strict mode retries as well
Reraise_Never(prod) == FALSE

\* if not self.machine.options["production"]: raise
Reraise(prod) == ~prod

\* the open raises SerialException (base.py:75-80)
OpenFails ==
    /\ connect_task = "opening"
    /\ open_failures < MaxOpenFailures
    /\ open_failures' = open_failures + 1
    /\ connect_task' = IF Reraise(production) THEN "failed" ELSE "retry_sleep"
    /\ UNCHANGED <<commVars, histVars, parseHarnessVars, addrHarnessVars, extVars,
                   production, retry_warnings>>

\* asyncio.sleep(.1) is over: the warning, then the next attempt (base.py:80-81, 69-74)
ConnectRetry ==
    /\ connect_task = "retry_sleep"
    /\ retry_warnings' = retry_warnings + 1
    /\ connect_task' = "opening"
    /\ UNCHANGED <<commVars, histVars, parseHarnessVars, addrHarnessVars, extVars,
                   production, open_failures>>

\* the open succeeds: base.py:86-104 up to the sleep in clear_board_serial_buffer
OpenSucceeds ==
    /\ connect_task = "opening"
    /\ ignore_decode_errors' = TRUE
    /\ port' = WriteToPort(port, <<CR, CR, CR, CR>>)
    /\ connect_task' = "drain"
    /\ UNCHANGED <<cls, config_boards, received_msg, send_ready, query_done, send_queue,
                   confirm_msg, remote_processor, remote_model, remote_firmware,
                   machine_vars, write_task, witem, waited, read_task,
                   exp_boards_by_address, active_board, platform_boards, cst, cq, qidx>>
    /\ UNCHANGED <<histVars, parseHarnessVars, addrHarnessVars, extVars,
                   production, open_failures, retry_warnings>>

\* the drain is over: base.py:106-112, the flag goes off and both loops start
Connect ==
    /\ connect_task = "drain"
    /\ write_task = "none"
    /\ read_task = "none"
    /\ ignore_decode_errors' = FALSE
    /\ write_task' = "get"
    /\ read_task' = "read"
    /\ connect_task' = "done"
    /\ UNCHANGED <<cls, config_boards, received_msg, send_ready, query_done, send_queue,
                   confirm_msg, remote_processor, remote_model, remote_firmware,
                   machine_vars, witem, waited, port, exp_boards_by_address, active_board,
                   platform_boards, cst, cq, qidx>>
    /\ UNCHANGED <<histVars, parseHarnessVars, addrHarnessVars, extVars,
                   production, open_failures, retry_warnings>>

(***************************************************************************)
(* The four enqueue operations (base.py:210-224).                          *)
(***************************************************************************)
\* f'{msg}\r'.encode()
Encode(msg) == msg \o <<CR>>

\* mutant: the new item goes to the front of the queue
PutNowait_Front(q, item) == <<item>> \o q

\* send_queue.put_nowait
PutNowait(q, item) == Append(q, item)

\* by and call record which send_query call, if any, the item belongs to
Enqueue(payload, confirm, by, call) ==
    /\ send_queue' = PutNowait(send_queue, [msg |-> payload, confirm_msg |-> confirm,
                                            by |-> by, call |-> call])
    /\ enqueued' = Append(enqueued, payload)

\* send_and_confirm(msg, confirm_msg)
SendAndConfirm(msg, confirm) ==
    /\ nsends < MaxSends
    /\ Enqueue(Encode(msg), confirm, "none", 0)
    /\ nsends' = nsends + 1
    /\ UNCHANGED <<cls, config_boards, received_msg, send_ready, query_done, confirm_msg,
                   ignore_decode_errors, remote_processor, remote_model, remote_firmware,
                   machine_vars, write_task, witem, waited, read_task, port,
                   exp_boards_by_address, active_board, platform_boards, cst, cq, qidx>>
    /\ UNCHANGED <<events, pending_conf, cwritten, canswered, verified, board_reset,
                   bqueried, nreads, parseHarnessVars, addrHarnessVars, connVars, extVars>>

\* send_blind(msg)
SendBlind(msg) ==
    /\ nsends < MaxSends
    /\ Enqueue(Encode(msg), None, "none", 0)
    /\ nsends' = nsends + 1
    /\ UNCHANGED <<cls, config_boards, received_msg, send_ready, query_done, confirm_msg,
                   ignore_decode_errors, remote_processor, remote_model, remote_firmware,
                   machine_vars, write_task, witem, waited, read_task, port,
                   exp_boards_by_address, active_board, platform_boards, cst, cq, qidx>>
    /\ UNCHANGED <<events, pending_conf, cwritten, canswered, verified, board_reset,
                   bqueried, nreads, parseHarnessVars, addrHarnessVars, connVars, extVars>>

\* send_bytes(msg)
SendBytes(msg) ==
    /\ nsends < MaxSends
    /\ Enqueue(msg, None, "none", 0)
    /\ nsends' = nsends + 1
    /\ UNCHANGED <<cls, config_boards, received_msg, send_ready, query_done, confirm_msg,
                   ignore_decode_errors, remote_processor, remote_model, remote_firmware,
                   machine_vars, write_task, witem, waited, read_task, port,
                   exp_boards_by_address, active_board, platform_boards, cst, cq, qidx>>
    /\ UNCHANGED <<events, pending_conf, cwritten, canswered, verified, board_reset,
                   bqueried, nreads, parseHarnessVars, addrHarnessVars, connVars, extVars>>

\* send_query(msg, response_msg) up to its await: enqueue, close the gate, suspend
SendQueryCall(c, msg, response_msg) ==
    /\ Enqueue(Encode(msg), response_msg, c, cq[c].call + 1)
    /\ query_done' = FALSE
    /\ cst' = [cst EXCEPT ![c] = "blocked"]
    /\ cq' = [cq EXCEPT ![c] = [msg |-> msg, response_msg |-> response_msg,
                                 call |-> cq[c].call + 1]]
    /\ cwritten' = [cwritten EXCEPT ![c] = FALSE]
    /\ canswered' = [canswered EXCEPT ![c] = FALSE]

\* an application coroutine calls send_query
SendQuery(msg, response_msg) ==
    /\ cst["app"] = "idle"
    /\ nsends < MaxSends
    /\ SendQueryCall("app", msg, response_msg)
    /\ nsends' = nsends + 1
    /\ UNCHANGED <<cls, config_boards, received_msg, send_ready, confirm_msg,
                   ignore_decode_errors, remote_processor, remote_model, remote_firmware,
                   machine_vars, write_task, witem, waited, read_task, port,
                   exp_boards_by_address, active_board, platform_boards, qidx>>
    /\ UNCHANGED <<events, pending_conf, verified, board_reset, bqueried, nreads,
                   parseHarnessVars, addrHarnessVars, connVars, extVars>>

\* the await in send_query returns to the application coroutine
SendQueryReturn ==
    /\ cst["app"] = "woken"
    /\ cst' = [cst EXCEPT !["app"] = "idle"]
    /\ UNCHANGED <<cls, config_boards, received_msg, send_ready, query_done, send_queue,
                   confirm_msg, ignore_decode_errors, remote_processor, remote_model,
                   remote_firmware, machine_vars, write_task, witem, waited, read_task, port,
                   exp_boards_by_address, active_board, platform_boards, cq, qidx>>
    /\ UNCHANGED <<histVars, parseHarnessVars, addrHarnessVars, connVars, extVars>>

\* FastSerialCommunicator.init(): send_query('ID:', 'ID:')
InitBaseCall ==
    /\ cls = BaseClass
    /\ cst["init"] = "new"
    /\ SendQueryCall("init", HDR_ID, HDR_ID)
    /\ UNCHANGED <<cls, config_boards, received_msg, send_ready, confirm_msg,
                   ignore_decode_errors, remote_processor, remote_model, remote_firmware,
                   machine_vars, write_task, witem, waited, read_task, port,
                   exp_boards_by_address, active_board, platform_boards, qidx>>
    /\ UNCHANGED <<events, pending_conf, verified, board_reset, bqueried, nsends, nreads,
                   parseHarnessVars, addrHarnessVars, connVars, extVars>>

\* init() returns once its query is done
InitBaseReturn ==
    /\ cls = BaseClass
    /\ cst["init"] = "woken"
    /\ cst' = [cst EXCEPT !["init"] = "done"]
    /\ UNCHANGED <<cls, config_boards, received_msg, send_ready, query_done, send_queue,
                   confirm_msg, ignore_decode_errors, remote_processor, remote_model,
                   remote_firmware, machine_vars, write_task, witem, waited, read_task, port,
                   exp_boards_by_address, active_board, platform_boards, cq, qidx>>
    /\ UNCHANGED <<histVars, parseHarnessVars, addrHarnessVars, connVars, extVars>>

(***************************************************************************)
(* _socket_writer (base.py:305-326), one action per suspension point.      *)
(***************************************************************************)
ReadyWaitTimeout == 1   \* wait_for(self.send_ready.wait(), timeout=1)

\* send_queue.get(): the item that leaves the queue
QueueGet(q) == Head(q)

\* msg, confirm_msg = await self.send_queue.get()
WriterGet ==
    /\ write_task = "get"
    /\ send_queue # <<>>
    /\ witem' = QueueGet(send_queue)
    /\ send_queue' = Tail(send_queue)
    /\ waited' = 0
    /\ write_task' = "wait_ready"
    /\ UNCHANGED <<cls, config_boards, received_msg, send_ready, query_done, confirm_msg,
                   ignore_decode_errors, remote_processor, remote_model, remote_firmware,
                   machine_vars, read_task, port, exp_boards_by_address, active_board,
                   platform_boards, cst, cq, qidx>>
    /\ UNCHANGED <<histVars, parseHarnessVars, addrHarnessVars, connVars, extVars>>

\* mutant: the writer loop does not wait for the ready gate
GateOpen_NoWait(ready) == TRUE

\* the gate lets the writer past a wait
GateOpen(ready) == ready

\* await asyncio.wait_for(self.send_ready.wait(), timeout=None)
WriterWaitReady ==
    /\ write_task = "wait_ready"
    /\ GateOpen(send_ready)
    /\ write_task' = "wait_ready_1s"
    /\ waited' = 0
    /\ UNCHANGED <<cls, config_boards, received_msg, send_ready, query_done, send_queue,
                   confirm_msg, ignore_decode_errors, remote_processor, remote_model,
                   remote_firmware, machine_vars, witem, read_task, port,
                   exp_boards_by_address, active_board, platform_boards, cst, cq, qidx>>
    /\ UNCHANGED <<histVars, parseHarnessVars, addrHarnessVars, connVars, extVars>>

\* await asyncio.wait_for(self.send_ready.wait(), timeout=1); TimeoutError is re-raised
WriterWaitReadyTimed ==
    /\ write_task = "wait_ready_1s"
    /\ IF GateOpen(send_ready)
       THEN write_task' = "issue"
       ELSE /\ waited >= ReadyWaitTimeout
            /\ write_task' = "failed"
    /\ UNCHANGED <<cls, config_boards, received_msg, send_ready, query_done, send_queue,
                   confirm_msg, ignore_decode_errors, remote_processor, remote_model,
                   remote_firmware, machine_vars, witem, waited, read_task, port,
                   exp_boards_by_address, active_board, platform_boards, cst, cq, qidx>>
    /\ UNCHANGED <<histVars, parseHarnessVars, addrHarnessVars, connVars, extVars>>

\* base.py:322-326: record the pattern, close the gate, write
WriterIssue ==
    /\ write_task = "issue"
    /\ IF witem.confirm_msg # None
       THEN /\ confirm_msg' = witem.confirm_msg
            /\ send_ready' = FALSE
            /\ pending_conf' = Append(pending_conf, witem.confirm_msg)
       ELSE UNCHANGED <<confirm_msg, send_ready, pending_conf>>
    /\ port' = WriteToPort(port, witem.msg)
    /\ cwritten' = [c \in Callers |-> cwritten[c] \/ (witem.by = c /\ witem.call = cq[c].call)]
    /\ witem' = NoItem
    /\ write_task' = "get"
    /\ UNCHANGED <<cls, config_boards, received_msg, query_done, send_queue,
                   ignore_decode_errors, remote_processor, remote_model, remote_firmware,
                   machine_vars, waited, read_task, exp_boards_by_address, active_board,
                   platform_boards, cst, cq, qidx>>
    /\ UNCHANGED <<enqueued, events, canswered, verified, board_reset, bqueried, nsends,
                   nreads, parseHarnessVars, addrHarnessVars, connVars, extVars>>

\* one second passes while the writer is suspended on the closed ready gate
Tick ==
    /\ write_task \in {"wait_ready", "wait_ready_1s"}
    /\ ~send_ready
    /\ waited < MaxWait
    /\ waited' = waited + 1
    /\ UNCHANGED <<cls, config_boards, received_msg, send_ready, query_done, send_queue,
                   confirm_msg, ignore_decode_errors, remote_processor, remote_model,
                   remote_firmware, machine_vars, write_task, witem, read_task, port,
                   exp_boards_by_address, active_board, platform_boards, cst, cq, qidx>>
    /\ UNCHANGED <<histVars, parseHarnessVars, addrHarnessVars, connVars, extVars>>

(***************************************************************************)
(* _socket_reader (base.py:275-280) for a non-empty read.                  *)
(***************************************************************************)
SocketReader(chunk) ==
    /\ read_task = "read"
    /\ nreads < MaxReads
    /\ LET r == ParseMsg(cls, ParseState, chunk) IN
         /\ ParseEffects(r)
         /\ read_task' = IF r.exc # "none" THEN "failed" ELSE "read"
    /\ nreads' = nreads + 1
    /\ UNCHANGED <<cls, config_boards, send_queue, ignore_decode_errors, write_task, witem,
                   waited, port, exp_boards_by_address, active_board, platform_boards,
                   cq, qidx>>
    /\ UNCHANGED <<enqueued, cwritten, board_reset, bqueried, nsends,
                   parseHarnessVars, addrHarnessVars, connVars, extVars>>

\* reader.read returned b'': warning, machine.stop(...), read returns None and
\* the loop returns (base.py:296-299, 278-279)
ReadEmpty ==
    /\ read_task = "read"
    /\ nreads < MaxReads
    /\ machine_stopped' = TRUE
    /\ read_task' = "done"
    /\ nreads' = nreads + 1
    /\ UNCHANGED <<cls, config_boards, received_msg, send_ready, query_done, send_queue,
                   confirm_msg, ignore_decode_errors, remote_processor, remote_model,
                   remote_firmware, machine_vars, write_task, witem, waited, port,
                   exp_boards_by_address, active_board, platform_boards, cst, cq, qidx>>
    /\ UNCHANGED <<enqueued, events, pending_conf, cwritten, canswered, verified,
                   board_reset, bqueried, nsends, parseHarnessVars, addrHarnessVars,
                   connVars, last_call>>

\* reader.read raised: warning, read returns None and the loop returns
\* (base.py:291-293, 278-279)
ReadError ==
    /\ read_task = "read"
    /\ nreads < MaxReads
    /\ read_task' = "done"
    /\ nreads' = nreads + 1
    /\ UNCHANGED <<cls, config_boards, received_msg, send_ready, query_done, send_queue,
                   confirm_msg, ignore_decode_errors, remote_processor, remote_model,
                   remote_firmware, machine_vars, write_task, witem, waited, port,
                   exp_boards_by_address, active_board, platform_boards, cst, cq, qidx>>
    /\ UNCHANGED <<enqueued, events, pending_conf, cwritten, canswered, verified,
                   board_reset, bqueried, nsends, parseHarnessVars, addrHarnessVars,
                   connVars, extVars>>

(***************************************************************************)
(* FastExpCommunicator.query_exp_boards (exp.py:83-101): one action from   *)
(* the call to the first await, one from each resumption to the next       *)
(* await, the end of the loop or the exception.                            *)
(***************************************************************************)
\* ('-').join(board_config['model'].split('-')[:3]).upper()
NormalizeModel(model) == Upper(Join(Take(Split(model, "-"), 3), <<"-">>))

\* mutant: the duplicate check never fires
AlreadyRegistered_Never(address, registry) == FALSE

\* the check of exp.py:91
AlreadyRegistered(address, registry) == address \in DOMAIN registry

\* exp_boards_by_address[address] = board
Register(registry, address, board) ==
    [a \in DOMAIN registry \cup {address} |-> IF a = address THEN board ELSE registry[a]]

\* f'ID@{self.active_board}:'
IdQueryFor(address) == QID_AT \o address \o <<":">>

\* the body of the for loop for board k, up to the await in send_query
DiscoverBoard(k) ==
    IF k > Len(config_boards)
    THEN /\ cst' = [cst EXCEPT !["init"] = "done"]
         /\ qidx' = k
         /\ UNCHANGED <<config_boards, active_board, exp_boards_by_address, platform_boards,
                        send_queue, enqueued, query_done, cq, cwritten, canswered, bqueried>>
    ELSE
      LET model == NormalizeModel(config_boards[k].model)
          board == config_boards[k].name
          id == config_boards[k].id
      IN
      /\ qidx' = k
      /\ config_boards' = [config_boards EXCEPT ![k].model = model]
      /\ IF <<model, id>> \notin DOMAIN AddressByModel
         THEN /\ cst' = [cst EXCEPT !["init"] = "KeyError"]
              /\ UNCHANGED <<active_board, exp_boards_by_address, platform_boards,
                             send_queue, enqueued, query_done, cq, cwritten, canswered, bqueried>>
         ELSE
           LET address == AddressByModel[<<model, id>>] IN
           /\ active_board' = address
           /\ IF AlreadyRegistered(address, exp_boards_by_address)
              THEN /\ cst' = [cst EXCEPT !["init"] = "AssertionError:registered"]
                   /\ UNCHANGED <<exp_boards_by_address, platform_boards, send_queue, enqueued,
                                  query_done, cq, cwritten, canswered, bqueried>>
              ELSE /\ exp_boards_by_address' = Register(exp_boards_by_address, address, board)
                   /\ platform_boards' = platform_boards \cup {board}
                   /\ SendQueryCall("init", IdQueryFor(address), HDR_ID)
                   /\ bqueried' = Append(bqueried, board)

\* init() -> query_exp_boards(), to the first await
QueryExpBoardsCall ==
    /\ cls = ExpClass
    /\ cst["init"] = "new"
    /\ DiscoverBoard(1)
    /\ UNCHANGED <<cls, received_msg, send_ready, confirm_msg, ignore_decode_errors,
                   remote_processor, remote_model, remote_firmware, machine_vars,
                   write_task, witem, waited, read_task, port>>
    /\ UNCHANGED <<events, pending_conf, verified, board_reset, nsends, nreads,
                   parseHarnessVars, addrHarnessVars, connVars, extVars>>

\* send_query returns: board_obj.reset(), then the next iteration
QueryExpBoardsResume ==
    /\ cls = ExpClass
    /\ cst["init"] = "woken"
    /\ board_reset' = board_reset \cup {config_boards[qidx].name}
    /\ DiscoverBoard(qidx + 1)
    /\ UNCHANGED <<cls, received_msg, send_ready, confirm_msg, ignore_decode_errors,
                   remote_processor, remote_model, remote_firmware, machine_vars,
                   write_task, witem, waited, read_task, port>>
    /\ UNCHANGED <<events, pending_conf, verified, nsends, nreads,
                   parseHarnessVars, addrHarnessVars, connVars, extVars>>

(***************************************************************************)
(* Bus-level commands of the expansion communicator (exp.py:120-136).      *)
(***************************************************************************)
\* addresses and rates the callers pass
BoardAddresses == {<<"B", "4">>, <<"8", "8">>}
FadeBoards == {<<"8", "8">>}
FadeRates == {-5, 500, 9000}

HexDigits == <<"0", "1", "2", "3", "4", "5", "6", "7", "8", "9", "A", "B", "C", "D", "E", "F">>

RECURSIVE HexOfWidth(_, _)
\* f"{n:0{w}X}" for 0 <= n < 16^w
HexOfWidth(n, w) ==
    IF w = 0 THEN <<>> ELSE Append(HexOfWidth(n \div 16, w - 1), HexDigits[(n % 16) + 1])

\* Util.int_to_hex_string(source_int, is_16bit=True): four upper-case hex digits
IntToHexString16(source_int) == HexOfWidth(source_int, 4)

\* f'EA:{board_address}'
CmdEA(board_address) == <<"E", "A", ":">> \o board_address

\* f'RF@{board_address}:{hex}'
CmdRF(board_address, hex) == <<"R", "F", "@">> \o board_address \o <<":">> \o hex

\* mutant: every call switches
SameBoard_Never(active, board_address) == FALSE

\* the negation of the test at exp.py:122
SameBoard(active, board_address) == active = board_address

\* set_active_board(board_address)
SetActiveBoard(board_address) ==
    /\ cls = ExpClass
    /\ nsends < MaxSends
    /\ nsends' = nsends + 1
    /\ last_call' = [op |-> "set_active_board", board_address |-> board_address,
                     rate |-> 0, n |-> last_call.n + 1]
    /\ IF SameBoard(active_board, board_address)
       THEN UNCHANGED <<active_board, send_queue, enqueued>>
       ELSE /\ active_board' = board_address
            /\ Enqueue(Encode(CmdEA(board_address)), None, "none", 0)
    /\ UNCHANGED <<cls, config_boards, received_msg, send_ready, query_done, confirm_msg,
                   ignore_decode_errors, remote_processor, remote_model, remote_firmware,
                   machine_vars, write_task, witem, waited, read_task, port,
                   exp_boards_by_address, platform_boards, cst, cq, qidx>>
    /\ UNCHANGED <<events, pending_conf, cwritten, canswered, verified, board_reset,
                   bqueried, nreads, parseHarnessVars, addrHarnessVars, connVars,
                   machine_stopped>>

MAX_FADE_RATE == 8191

\* mutant: no upper limit
ClampRate_NoUpper(rate) == IF rate < 0 THEN 0 ELSE rate

\* exp.py:128-133
ClampRate(rate) == IF rate > MAX_FADE_RATE THEN MAX_FADE_RATE ELSE IF rate < 0 THEN 0 ELSE rate

\* set_led_fade_rate(board_address, rate)
SetLedFadeRate(board_address, rate) ==
    /\ cls = ExpClass
    /\ nsends < MaxSends
    /\ nsends' = nsends + 1
    /\ last_call' = [op |-> "set_led_fade_rate", board_address |-> board_address,
                     rate |-> rate, n |-> last_call.n + 1]
    /\ Enqueue(Encode(CmdRF(board_address, IntToHexString16(ClampRate(rate)))), None, "none", 0)
    /\ UNCHANGED <<cls, config_boards, received_msg, send_ready, query_done, confirm_msg,
                   ignore_decode_errors, remote_processor, remote_model, remote_firmware,
                   machine_vars, write_task, witem, waited, read_task, port,
                   exp_boards_by_address, active_board, platform_boards, cst, cq, qidx>>
    /\ UNCHANGED <<events, pending_conf, cwritten, canswered, verified, board_reset,
                   bqueried, nreads, parseHarnessVars, addrHarnessVars, connVars,
                   machine_stopped>>

(***************************************************************************)
(* The communicator: both loops, the application and the remote end.       *)
(***************************************************************************)
Application ==
    \/ \E m \in AppCommands, p \in AppConfirms : SendAndConfirm(m, p)
    \/ \E m \in AppCommands : SendBlind(m)
    \/ \E m \in AppCommands : SendBytes(m)
    \/ \E q \in AppQueries : SendQuery(q.msg, q.response_msg)
    \/ SendQueryReturn

Loops ==
    \/ WriterGet
    \/ WriterWaitReady
    \/ WriterWaitReadyTimed
    \/ WriterIssue
    \/ Tick
    \/ \E chunk \in WireChunks(cls) : SocketReader(chunk)
    \/ ReadEmpty
    \/ ReadError

\* a FastSerialCommunicator
Init == InitComm(BaseClass) /\ InitHarness

Connecting ==
    \/ ConnectCall
    \/ OpenFails
    \/ ConnectRetry
    \/ OpenSucceeds
    \/ Connect

Next ==
    \/ Connecting
    \/ Application
    \/ InitBaseCall
    \/ InitBaseReturn
    \/ Loops

Spec == Init /\ [][Next]_vars

\* a FastExpCommunicator
InitExp == InitComm(ExpClass) /\ InitHarness

NextExp ==
    \/ Connecting
    \/ Application
    \/ QueryExpBoardsCall
    \/ QueryExpBoardsResume
    \/ Loops

SpecExp == InitExp /\ [][NextExp]_vars

\* a FastExpCommunicator whose application drives the boards
BoardApplication ==
    \/ \E a \in BoardAddresses : SetActiveBoard(a)
    \/ \E a \in FadeBoards, r \in FadeRates : SetLedFadeRate(a, r)

NextBoard ==
    \/ Connecting
    \/ BoardApplication
    \/ QueryExpBoardsCall
    \/ QueryExpBoardsResume
    \/ Loops

SpecBoard == InitExp /\ [][NextBoard]_vars

(***************************************************************************)
(* The frame parser on its own: _parse_msg called on a constructed         *)
(* communicator with arbitrary chunks of bytes.                            *)
(***************************************************************************)
MaxChunkLen == 2    \* longest chunk handed to _parse_msg

ByteAlphabet == {CR, "a"}

RECURSIVE SeqsUpTo(_, _)
SeqsUpTo(S, n) ==
    IF n = 0 THEN {<<>>}
    ELSE LET shorter == SeqsUpTo(S, n - 1) IN
         shorter \cup {Append(q, x) : q \in {r \in shorter : Len(r) = n - 1}, x \in S}

ByteChunks == SeqsUpTo(ByteAlphabet, MaxChunkLen) \ {<<>>}

ParseMsgCall(chunk) ==
    /\ nreads < MaxParseCalls
    /\ \A i \in DOMAIN events : events[i].exc = "none"
    /\ LET r == ParseMsg(cls, ParseState, chunk) IN
         /\ ParseEffects(r)
         /\ framed' = framed \o r.framed
    /\ stream' = stream \o chunk
    /\ nreads' = nreads + 1
    /\ UNCHANGED <<cls, config_boards, send_queue, ignore_decode_errors, write_task, witem,
                   waited, read_task, port, exp_boards_by_address, active_board,
                   platform_boards, cq, qidx>>
    /\ UNCHANGED <<enqueued, cwritten, board_reset, bqueried, nsends, addrHarnessVars, connVars, extVars>>

NextParse == \E chunk \in ByteChunks : ParseMsgCall(chunk)

SpecParse == Init /\ [][NextParse]_vars

\* _parse_msg called on a constructed communicator, before connect(), with line
\* noise: chunks that hold bytes which do not decode
NoiseChunks ==
    {<<HIGH, CR>>, <<HIGH>>, <<"a", CR>>, <<CR>>, <<HIGH, CR, "a", CR>>}

NextNoise == \E chunk \in NoiseChunks : ParseMsgCall(chunk)

SpecNoise == Init /\ [][NextNoise]_vars

(***************************************************************************)
(* FastExpCommunicator.get_address_from_number_string (exp.py:53-81) on    *)
(* address strings built from their fields.                                *)
(***************************************************************************)
AddrPrefixes == {<<>>, <<"f", "p", "-">>, <<"F", "P", "-">>}
AddrBoards == {<<"0", "0", "7", "1">>, <<"7", "1">>, <<"0", "2", "0", "1">>, <<"2", "0", "1">>}
AddrInstances == {0, 1, 2}
AddrBreakouts == {-1, 0, 1}      \* -1: no breakout segment
AddrDevices == {<<"s", "1">>, <<"p", "1", "-", "1">>}

AddrInputs ==
    [prefix : AddrPrefixes, board : AddrBoards, instance : AddrInstances,
     breakout : AddrBreakouts, device : AddrDevices]

\* [fp-]exp-<board>-i<instance>[-b<breakout>]-<device>
BuildNumberStr(parts) ==
    parts.prefix \o <<"e", "x", "p", "-">> \o parts.board \o <<"-", "i">> \o IntToStr(parts.instance)
      \o (IF parts.breakout >= 0 THEN <<"-", "b">> \o IntToStr(parts.breakout) ELSE <<>>)
      \o <<"-">> \o parts.device

\* stripped_str.split("-", 4)
SplitFields(stripped_str) == SplitMax(stripped_str, "-", 4)

\* the outcome of get_address_from_number_string(number_str)
GetAddressFromNumberString(str) ==
    LET stripped_str == Strip(Lower(str), {"f", "p", "-"})
        fields == SplitFields(stripped_str)
    IN
    IF Len(fields) # 4
    THEN \* ValueError of the unpacking -> platform.raise_config_error(..., 7)
         [kind |-> "ConfigError", code |-> 7]
    ELSE
      LET the_rest == fields[4]
          has_b == StartsWith(the_rest, <<"b">>)
          bd == Split(the_rest, "-")
      IN
      IF has_b /\ Len(bd) # 2 THEN [kind |-> "ValueError"]
      ELSE
        LET breakout == IF has_b THEN bd[1] ELSE <<"b", "0">>
            device == IF has_b THEN bd[2] ELSE the_rest
            board == ZFill(fields[2], 4)
            id == ParseInt(Drop(fields[3], 1))
            bnum == ParseInt(Drop(breakout, 1))
        IN
        IF ~id.ok \/ ~bnum.ok THEN [kind |-> "ValueError"]
        ELSE
          LET key == board \o <<"-">> \o IntToStr(id.value) IN
          IF key \notin DOMAIN AddressByNumber THEN [kind |-> "KeyError"]
          ELSE [kind |-> "return",
                value |-> <<AddressByNumber[key], bnum.value, device>>]

InitAddr ==
    /\ InitComm(ExpClass)
    /\ stream = <<>>
    /\ framed = <<>>
    /\ addr_parts \in AddrInputs
    /\ number_str = BuildNumberStr(addr_parts)
    /\ addr_result = [kind |-> "none"]

GetAddressCall ==
    /\ addr_result.kind = "none"
    /\ addr_result' = GetAddressFromNumberString(number_str)
    /\ UNCHANGED <<commVars, histVars, parseHarnessVars, number_str, addr_parts, connVars, extVars>>

NextAddr == GetAddressCall

SpecAddr == InitAddr /\ [][NextAddr]_vars

(***************************************************************************)
(* Properties.                                                             *)
(***************************************************************************)
\* payloads written by the writer loop: everything after the drain's flush
WriterWritten == IF port = <<>> THEN <<>> ELSE Tail(port)

\* the writer loop hands a payload to the transport in this step
WriterWrites == write_task = "issue" /\ port' # port

\* the reader loop fed a chunk to _parse_msg in this step
ReaderStep == read_task = "read" /\ nreads' = nreads + 1 /\ read_task' # "done"

LastEvent(evs) == evs[Len(evs)]

\* C1: the writer loop writes a queued item, confirm-requiring or not, only when
\* no confirmation pattern of an earlier confirm-requiring write is outstanding
\* (written and not yet seen by the router's confirmation check); hence at most
\* one confirmation is ever outstanding.
C1_AtMostOneInFlight ==
    [][(WriterWrites => pending_conf = <<>>) /\ Len(pending_conf') <= 1]_vars

\* C1 witness: a confirm-requiring item is held back by the writer while the
\* confirmation of an earlier confirm-requiring write is outstanding
C1_Witness ==
    /\ write_task = "wait_ready"
    /\ witem.confirm_msg # None
    /\ pending_conf # <<>>
    /\ Len(WriterWritten) >= 1

IdentityFields ==
    {<<(<<"N", "E", "T">>), (<<"F", "P", "-", "C", "P", "U", "-", "2", "0", "0", "0">>),
       (<<"2", ".", "1", "1">>)>>}

IdResponse(f) == HDR_ID \o f[1] \o <<" ">> \o f[2] \o <<" ">> \o f[3]

C3_UnblockedOnlyByOwnConfirmation ==
    \A c \in Callers : cst[c] = "woken" => (cwritten[c] /\ canswered[c])

\* C4: the payloads written by the writer loop, then the item it holds, then
\* the payloads still queued are exactly the payloads enqueued, in enqueue
\* order: what is written is a prefix of what was enqueued, nothing is written
\* twice, skipped or reordered.
C4_FifoWrites ==
    /\ enqueued = WriterWritten
                    \o (IF witem = NoItem THEN <<>> ELSE <<witem.msg>>)
                    \o [i \in 1..Len(send_queue) |-> send_queue[i].msg]
    /\ Len(WriterWritten) <= Len(enqueued)
    /\ SubSeq(enqueued, 1, Len(WriterWritten)) = WriterWritten

\* C4 witness: a confirm-requiring payload and a different fire-and-forget
\* payload have both been written
C4_Witness ==
    /\ Len(WriterWritten) >= 2
    /\ WriterWritten[1] # WriterWritten[2]
    /\ \E i \in 1..2 : WriterWritten[i] = Encode(HDR_ID)
    /\ \E i \in 1..2 : WriterWritten[i] = CmdSA

\* C5: the writer loop is never suspended on the closed ready gate for longer
\* than the fixed bound; when the bound is reached it ends with the fatal error.
C5_ReadyWaitBounded ==
    (write_task \in {"wait_ready", "wait_ready_1s"} /\ ~send_ready) => waited <= ReadyWaitTimeout

\* the delimiter-terminated segments of a whole stream that are not empty
TerminatedSegments(s) ==
    LET parts == Split(s, CR) IN
    SelectSeq(SubSeq(parts, 1, Len(parts) - 1), LAMBDA m : m # <<>>)

\* the bytes of a stream after its last delimiter
AfterLastDelimiter(s) == LET parts == Split(s, CR) IN parts[Len(parts)]

\* C6: however a byte stream is cut into chunks, the messages _parse_msg has
\* extracted are the non-empty delimiter-terminated segments of the whole
\* stream, in order, and after each call the receive buffer is the bytes after
\* the last delimiter (so it holds no delimiter).
C6_ChunkBoundaryIndependence ==
    /\ framed = TerminatedSegments(stream)
    /\ received_msg = AfterLastDelimiter(stream)
    /\ \A i \in DOMAIN received_msg : received_msg[i] # CR

\* C6 witness: a message longer than any single chunk has been extracted, and
\* bytes of a later, unfinished message wait in the buffer
C6_Witness ==
    /\ \E i \in DOMAIN framed : Len(framed[i]) > MaxChunkLen
    /\ received_msg # <<>>

BoardNames == {config_boards[k].name : k \in DOMAIN config_boards}

VerifiedBoards == {v[1] : v \in verified}

\* C7: board k is reset, and board k+1 is queried, only after the identity
\* handler has passed the firmware gate and called verify_hardware on board k.
C7_SequentialDiscovery ==
    \A k \in DOMAIN config_boards :
        (\/ config_boards[k].name \in board_reset
         \/ \E j \in DOMAIN bqueried : j > k /\ bqueried[j] = config_boards[j].name)
        => config_boards[k].name \in VerifiedBoards

IdExp(fw) == HDR_ID \o <<"E", "X", "P", " ", "F", "P", "-", "E", "X", "P", "-", "0", "0", "7", "1", " ">> \o fw

FirmwareOld == {<<"0", ".", "5">>}
FirmwareOk == {<<"0", ".", "7">>, <<"1", ".", "0">>}

ConfiguredAddress(b) == AddressByModel[<<NormalizeModel(b.model), b.id>>]

\* C9: a configured board whose address is already in the registry makes
\* query_exp_boards fail with the duplicate-registration error before a record
\* is registered or an identity query is enqueued for it; the registry keeps
\* the first board of that address.
C9_DuplicateRegistration ==
    /\ \A i, j \in DOMAIN config_boards :
         (i < j /\ ConfiguredAddress(config_boards[i]) = ConfiguredAddress(config_boards[j]))
         => /\ config_boards[j].name \notin platform_boards
            /\ \A a \in DOMAIN exp_boards_by_address :
                 exp_boards_by_address[a] # config_boards[j].name
            /\ \A n \in DOMAIN bqueried : bqueried[n] # config_boards[j].name
            /\ \A n \in DOMAIN enqueued :
                 enqueued[n] = Encode(IdQueryFor(ConfiguredAddress(config_boards[j])))
                 => Len(SelectSeq(enqueued, LAMBDA x : x = enqueued[n])) = 1
            /\ qidx >= j => /\ cst["init"] = "AssertionError:registered"
                            /\ qidx = j
                            /\ exp_boards_by_address[ConfiguredAddress(config_boards[j])]
                                 = config_boards[i].name
    /\ cst["init"] = "AssertionError:registered"
         => \E i \in 1..(qidx - 1) :
              ConfiguredAddress(config_boards[i]) = ConfiguredAddress(config_boards[qidx])

\* C9 witness: discovery has stopped on the second board of an address
C9_Witness ==
    /\ cst["init"] = "AssertionError:registered"
    /\ qidx = 2
    /\ Len(bqueried) = 1

\* C10: for a well-formed address string whose (board, instance) is in the
\* table, the result is (table address of the zero-padded board and the
\* instance, breakout number or 0 when there is no breakout segment, device).
C10_AddressParsed ==
    \A e \in EXPANSION_BOARD_ADDRESS_MAP :
        (/\ addr_result.kind # "none"
         /\ e.board = ZFill(addr_parts.board, 4)
         /\ e.id = addr_parts.instance)
        => addr_result =
             [kind |-> "return",
              value |-> <<e.address,
                          IF addr_parts.breakout >= 0 THEN addr_parts.breakout ELSE 0,
                          addr_parts.device>>]


\* the (board, instance) pair the address string was built from is in the table
PairInTable(parts) ==
    \E e \in EXPANSION_BOARD_ADDRESS_MAP :
        e.board = ZFill(parts.board, 4) /\ e.id = parts.instance

\* the string does not split into the four fields the code unpacks
WrongFieldCount(str) == Len(SplitFields(Strip(Lower(str), {"f", "p", "-"}))) # 4

\* C11: every malformed address string (wrong number of hyphen-delimited fields, or a
\* (board, instance) pair that is not in the board-address table) ends in the
\* configuration error, never in another failure and never in a returned address
C11_MalformedIsConfigError ==
    (addr_result.kind # "none" /\ (WrongFieldCount(number_str) \/ ~PairInTable(addr_parts)))
        => addr_result.kind = "ConfigError"


\* the address-switch commands among the payloads enqueued so far
SwitchCommands == SelectSeq(enqueued, LAMBDA p : StartsWith(p, <<"E", "A", ":">>))

\* the step is a call of the named board-level command
BoardCall(op) == last_call'.n # last_call.n /\ last_call'.op = op

\* C12: a set_active_board call whose address differs from the tracked active address
\* enqueues exactly one fire-and-forget 'EA:<addr>' command and tracks the address; a call
\* with the tracked address enqueues nothing and changes no state of the communicator
C12_SwitchOnlyOnChange ==
    [][BoardCall("set_active_board") =>
         IF last_call'.board_address = active_board
         THEN UNCHANGED <<commVars, enqueued>>
         ELSE /\ active_board' = last_call'.board_address
              /\ enqueued' = Append(enqueued, CmdEA(last_call'.board_address) \o <<CR>>)
              /\ Len(send_queue') = Len(send_queue) + 1
              /\ SubSeq(send_queue', 1, Len(send_queue)) = send_queue
              /\ send_queue'[Len(send_queue')].msg = CmdEA(last_call'.board_address) \o <<CR>>
              /\ send_queue'[Len(send_queue')].confirm_msg = None]_vars

\* set_active_board was called twice with the same address, before any discovery, and one
\* switch command was enqueued
C12_Witness ==
    /\ cst["init"] = "new"
    /\ last_call.op = "set_active_board"
    /\ last_call.n = 2
    /\ active_board = last_call.board_address
    /\ enqueued = <<CmdEA(active_board) \o <<CR>>>>


\* C13: both a zero-length read and an I/O error on the transport read end the reader loop
\* after the process-wide shutdown notification (machine.stop), with nothing fed to the parser
C13_ClosureStopsMachine ==
    [][(read_task = "read" /\ read_task' = "done") =>
          (machine_stopped' /\ UNCHANGED <<received_msg, events, confirm_msg, send_ready>>)]_vars


\* the flush of clear_board_serial_buffer
Flush == <<CR, CR, CR, CR>>

\* what connect() has done, by its position
ConnectPolicy ==
    /\ connect_task = "failed" =>
          /\ ~production
          /\ open_failures = 1
          /\ port = <<>>
          /\ write_task = "none" /\ read_task = "none"
    /\ production =>
          /\ connect_task # "failed"
          /\ retry_warnings = open_failures - (IF connect_task = "retry_sleep" THEN 1 ELSE 0)
    /\ connect_task \in {"none", "opening", "retry_sleep", "failed"} =>
          /\ port = <<>>
          /\ write_task = "none" /\ read_task = "none"
    /\ connect_task = "drain" =>
          /\ port = <<Flush>>
          /\ ignore_decode_errors
          /\ write_task = "none" /\ read_task = "none"
    /\ connect_task = "done" =>
          /\ port # <<>> /\ Head(port) = Flush
          /\ ~ignore_decode_errors
          /\ write_task # "none" /\ read_task # "none"

\* how connect() moves
ConnectSteps ==
    /\ connect_task = "failed" => connect_task' = "failed" /\ open_failures' = open_failures
    /\ open_failures' # open_failures =>
          /\ connect_task = "opening"
          /\ open_failures' = open_failures + 1
          /\ connect_task' = IF production THEN "retry_sleep" ELSE "failed"
    /\ (connect_task = "retry_sleep" /\ connect_task' # "retry_sleep") =>
          /\ connect_task' = "opening"
          /\ retry_warnings' = retry_warnings + 1
    /\ (write_task = "none" /\ write_task' # "none") \/ (read_task = "none" /\ read_task' # "none") =>
          /\ connect_task = "drain" /\ connect_task' = "done"
          /\ write_task = "none" /\ write_task' = "get"
          /\ read_task = "none" /\ read_task' = "read"
    /\ connect_task = "done" => connect_task' = "done"

\* C14: in strict mode the first open failure propagates with no further attempt, no
\* flush written and no loop started; in production mode every open failure is followed
\* by a warning and another attempt and connect() never fails; once the open succeeds
\* connect() writes the four-delimiter flush, turns ignore_decode_errors off and starts
\* one reader loop and one writer loop
C14_ConnectRetryPolicy == []ConnectPolicy /\ [][ConnectSteps]_vars

\* production mode: the open failed, was retried with a warning, and connect() completed
C14_Witness ==
    /\ production
    /\ open_failures >= 1
    /\ retry_warnings = open_failures
    /\ connect_task = "done"
    /\ Head(port) = Flush
    /\ write_task = "get" /\ read_task = "read"


\* the payload set_led_fade_rate must enqueue for the call's arguments
FadeRatePayload(board_address, rate) ==
    CmdRF(board_address,
          IntToHexString16(IF rate < 0 THEN 0 ELSE IF rate > 8191 THEN 8191 ELSE rate))
      \o <<CR>>

\* C15: set_led_fade_rate(addr, rate) never fails and enqueues exactly one fire-and-forget
\* 'RF@<addr>:' command whose encoded rate is min(max(rate, 0), 8191): 9000 is sent as
\* 8191 (1FFF), -5 as 0 (0000) and 500 as 500 (01F4)
C15_FadeRateClamped ==
    [][BoardCall("set_led_fade_rate") =>
         /\ enqueued' = Append(enqueued, FadeRatePayload(last_call'.board_address, last_call'.rate))
         /\ Len(send_queue') = Len(send_queue) + 1
         /\ SubSeq(send_queue', 1, Len(send_queue)) = send_queue
         /\ send_queue'[Len(send_queue')].msg = enqueued'[Len(enqueued')]
         /\ send_queue'[Len(send_queue')].confirm_msg = None
         /\ last_call'.rate = 9000 => Drop(Take(enqueued'[Len(enqueued')], 10), 6) = <<"1", "F", "F", "F">>
         /\ last_call'.rate = -5 => Drop(Take(enqueued'[Len(enqueued')], 10), 6) = <<"0", "0", "0", "0">>
         /\ last_call'.rate = 500 => Drop(Take(enqueued'[Len(enqueued')], 10), 6) = <<"0", "1", "F", "4">>]_vars

\* set_led_fade_rate was called with a rate above the limit and its command is queued
C15_Witness ==
    /\ last_call.op = "set_led_fade_rate"
    /\ last_call.rate > 8191
    /\ enqueued # <<>>
    /\ enqueued[Len(enqueued)] = <<"R", "F", "@", "8", "8", ":", "1", "F", "F", "F", CR>>


\* C16: an empty message (a delimiter that follows another delimiter or starts the buffer)
\* is discarded silently: it is never extracted as a message, so no handler runs, no
\* confirmation is cleared and no unknown-message warning is produced for it
C16_EmptyMessagesDiscarded ==
    /\ \A i \in DOMAIN events : events[i].msg # <<>>
    /\ \A i \in DOMAIN framed : framed[i] # <<>>
    /\ Len(framed) = Len(TerminatedSegments(stream))

\* the stream had a delimiter right after another one, and messages were extracted
C16_Witness ==
    /\ \E i \in 1..(Len(stream) - 1) : stream[i] = CR /\ stream[i + 1] = CR
    /\ framed # <<>>
    /\ events # <<>>


\* the ready gate is closed exactly while a confirmation pattern is set; before any
\* send_query call the query gate is open
GateMatchesPattern ==
    /\ send_ready <=> (confirm_msg = None)
    /\ (\A c \in Callers : cq[c].call = 0) => query_done

\* who closes and who reopens the ready gate
GateSteps ==
    /\ (send_ready /\ ~send_ready') =>
          /\ write_task = "issue"
          /\ witem.confirm_msg # None
          /\ confirm_msg' = witem.confirm_msg
          /\ port' = Append(port, witem.msg)
    /\ (~send_ready /\ send_ready') =>
          /\ ReaderStep
          /\ \E i \in DOMAIN events' :
                /\ events'[i].confirmed
                /\ StartsWith(events'[i].msg, confirm_msg)

\* C17: in every reachable state the ready gate is closed iff a confirmation pattern is
\* outstanding; both gates start open; the ready gate is closed only by the writer loop
\* issuing a confirm-requiring send and reopened only by the router observing a message
\* that starts with the pattern
C17_GateClosedIffPatternSet == []GateMatchesPattern /\ [][GateSteps]_vars

\* the gate was closed by a confirm-requiring write, reopened by its confirmation, and is
\* closed again by the next confirm-requiring write
C17_Witness ==
    /\ ~send_ready
    /\ confirm_msg # None
    /\ \E i \in DOMAIN events : events[i].confirmed
    /\ Len(port) >= 3


\* the bus address of an enqueued 'EA:<addr>\r' command
SwitchAddress(payload) == Drop(Take(payload, Len(payload) - 1), 3)

\* C18: the tracked active board equals the bus address of the most recent address-switch
\* ('EA:') command emitted (and is unset when none was emitted), after any sequence of
\* set_active_board calls and board discovery
C18_ActiveBoardIsLastSwitch ==
    active_board = (IF SwitchCommands = <<>> THEN None
                    ELSE SwitchAddress(SwitchCommands[Len(SwitchCommands)]))


\* the message was routed as base.py:250-273 routes a decoded message whose handler,
\* if any, returns
RoutedAsSpecified(e) ==
    IF e.msg \in IgnoredMessages(cls)
    THEN e.ignored /\ e.handler = None /\ ~e.confirmed /\ ~e.unknown /\ e.exc = "none"
    ELSE /\ ~e.ignored
         /\ (e.handler # None) <=> (Take(e.msg, 3) \in MessageProcessors(cls))
         /\ e.handler # None => e.handler = Take(e.msg, 3)
         /\ IF e.exc # "none"
            THEN e.handler # None /\ ~e.confirmed /\ ~e.unknown
            ELSE /\ e.confirmed <=> (e.pattern # None /\ StartsWith(e.msg, e.pattern))
                 /\ e.unknown <=> (e.handler = None /\ ~e.confirmed)

\* the routing of the claim as stated: the confirmation check is independent of the handler
RoutedIndependently(e) ==
    IF e.msg \in IgnoredMessages(cls)
    THEN e.ignored /\ e.handler = None /\ ~e.confirmed /\ ~e.unknown
    ELSE /\ (e.handler # None) <=> (Take(e.msg, 3) \in MessageProcessors(cls))
         /\ e.confirmed <=> (e.pattern # None /\ StartsWith(e.msg, e.pattern))
         /\ e.unknown <=> (e.handler = None /\ ~e.confirmed)
         /\ e.unknown => e.exc = "none"

\* C19 as stated: for every non-empty decoded message the handler of its header runs iff
\* the header is registered and, independently, the confirmation is cleared iff a pattern
\* is set and the message starts with it; the warning iff neither; ignored messages are
\* dropped before both
C19_RoutingIndependent ==
    \A i \in DOMAIN events : events[i].decoded => RoutedIndependently(events[i])

\* the effect of a _parse_msg call on the gate: reopened and the pattern cleared iff one
\* of its messages was confirmed
ConfirmationEffect ==
    ReaderStep =>
        IF \E i \in DOMAIN events' : events'[i].confirmed
        THEN confirm_msg' = None /\ send_ready'
        ELSE UNCHANGED <<confirm_msg, send_ready>>

\* C19 (amended): as above, except that a handler that raises ends the routing of its
\* message: the confirmation check and the warning happen only when the handler, if any,
\* returned
C19_RoutingUnlessHandlerRaises ==
    /\ [](\A i \in DOMAIN events : events[i].decoded => RoutedAsSpecified(events[i]))
    /\ [][ConfirmationEffect]_vars

\* one message both ran its handler (the identity is recorded) and cleared the
\* confirmation it matched
C19_Witness ==
    /\ \E i \in DOMAIN events : events[i].handler = HDR_ID /\ events[i].confirmed
    /\ send_ready /\ confirm_msg = None
    /\ remote_firmware # None


\* C20: a message that fails to decode while ignore_decode_errors is on is dropped with a
\* warning (no handler, no confirmation check, no unknown-message path, no error) and
\* parsing continues; while the flag is off it is fatal
C20_DecodeFailurePolicy ==
    \A i \in DOMAIN events :
        ~events[i].decoded =>
            IF ignore_decode_errors
            THEN /\ events[i].handler = None
                 /\ ~events[i].confirmed
                 /\ ~events[i].unknown
                 /\ events[i].exc = "none"
            ELSE events[i].exc = "UnicodeDecodeError"

=============================================================================
